---- MODULE Spec2Model ----
(***************************************************************************)
(* Model of the notesify REST core: stateless token verification           *)
(* (src/lib/auth.ts), the note / tag / dashboard route handlers under      *)
(* app/api, and the relational state they read and write (src/db/schema).  *)
(* One action per route handler; a handler is a single step of the model.  *)
(***************************************************************************)
EXTENDS Integers, Sequences, FiniteSets, TLC

VARIABLES
    envSecret,   \* process.env.JWT_SECRET ("" when the variable is not set)
    now,         \* the server clock
    users,       \* rows of table users
    notes,       \* rows of table notes
    tags,        \* rows of table tags
    noteTags,    \* rows of table note_tags, in serial-id order
    nextNoteId,  \* last value handed out by the notes.id sequence
    nextTagId,   \* last value handed out by the tags.id sequence
    last,        \* the last request handled and the response it got
    calls,       \* requests in progress whose statements interleave: position and inputs
    ui           \* the notes page in a browser: its React state and its fetches in flight

vars ==
    <<envSecret, now, users, notes, tags, noteTags, nextNoteId, nextTagId, last, calls, ui>>
db == <<users, notes, tags, noteTags, nextNoteId, nextTagId>>

----------------------------------------------------------------------------
(* Bounds *)

MaxTime == 2
MaxNotes == 1
MaxTags == 2
MaxNoteTags == 2

----------------------------------------------------------------------------
(* Values *)

NullVal == [kind |-> "null"]   \* a null object (no identity, no row)
NullStr == "<null>"            \* a null text column
NoId == 0                      \* an id parameter that is absent
NoReq == [none |-> TRUE]       \* no query string or body read

\* the tagIds member of a request body: absent, or a list of ids
NoTagIds == [present |-> FALSE, list |-> <<>>]
TagIdList(l) == [present |-> TRUE, list |-> l]

UserIds == {1, 2}
TokenUserIds == {1, 2, 3}
EmailOf(u) == IF u = 1 THEN "u1@x" ELSE IF u = 2 THEN "u2@x" ELSE "u3@x"
NameOf(u) == IF u = 1 THEN "Ann" ELSE IF u = 2 THEN "Bob" ELSE "Cy"

Min(a, b) == IF a < b THEN a ELSE b

\* Lower-casing of the characters that occur in note contents and searches.
Lower(ch) == IF ch = "A" THEN "a" ELSE IF ch = "B" THEN "b" ELSE ch
LowerSeq(s) == [i \in 1..Len(s) |-> Lower(s[i])]

\* content ILIKE '%search%'
ilike(content, search) ==
    \E i \in 0..(Len(content) - Len(search)) :
        LowerSeq(SubSeq(content, i + 1, i + Len(search))) = LowerSeq(search)

\* All orderings of the finite set S as sequences.
Perms(S) ==
    {f \in [1..Cardinality(S) -> S] : \A i, j \in 1..Cardinality(S) : f[i] = f[j] => i = j}

----------------------------------------------------------------------------
(* Tokens *)

DefaultSecret == "your-secret-key"
JWT_SECRET == IF envSecret = "" THEN DefaultSecret ELSE envSecret

\* HMAC of the whole claim set under a key.
Sign(payload, key) == <<payload, key>>

NoCookie == [kind |-> "none"]
Garbage == [kind |-> "garbage"]
Jwt(payload, sig) == [kind |-> "jwt", payload |-> payload, sig |-> sig]

\* Token issued at login for an identity, expiring at time exp.
Issue(identity, exp, secret) ==
    LET payload == [userId |-> identity.userId, email |-> identity.email, exp |-> exp]
    IN  Jwt(payload, Sign(payload, secret))

\* jwt.verify called with ignoreExpiration: the expiry claim is not looked at.
jwtVerify_IgnoreExpiration(token, secret, t) ==
    IF token.kind # "jwt" THEN [ok |-> FALSE, error |-> "JsonWebTokenError: jwt malformed"]
    ELSE IF token.sig # Sign(token.payload, secret)
        THEN [ok |-> FALSE, error |-> "JsonWebTokenError: invalid signature"]
    ELSE [ok |-> TRUE, payload |-> token.payload]

\* jwt.decode in place of jwt.verify: the signature is not checked.
jwtVerify_DecodeOnly(token, secret, t) ==
    IF token.kind # "jwt" THEN [ok |-> FALSE, error |-> "JsonWebTokenError: jwt malformed"]
    ELSE IF "exp" \in DOMAIN token.payload /\ t >= token.payload.exp
        THEN [ok |-> FALSE, error |-> "TokenExpiredError: jwt expired"]
    ELSE [ok |-> TRUE, payload |-> token.payload]

\* jwt.verify(token, secret): the payload, or an error.
jwtVerify(token, secret, t) ==
    IF token.kind # "jwt" THEN [ok |-> FALSE, error |-> "JsonWebTokenError: jwt malformed"]
    ELSE IF token.sig # Sign(token.payload, secret)
        THEN [ok |-> FALSE, error |-> "JsonWebTokenError: invalid signature"]
    ELSE IF "exp" \in DOMAIN token.payload /\ t >= token.payload.exp
        THEN [ok |-> FALSE, error |-> "TokenExpiredError: jwt expired"]
    ELSE [ok |-> TRUE, payload |-> token.payload]

\* The type guard asking for an 'id' claim, which no token carries.
getAuthUser_WrongClaim(cookie, secret, t) ==
    IF cookie = NoCookie \/ secret = "" THEN NullVal
    ELSE LET decoded == jwtVerify(cookie, secret, t)
         IN  IF ~decoded.ok THEN NullVal
             ELSE IF "id" \in DOMAIN decoded.payload /\ "email" \in DOMAIN decoded.payload
                 THEN decoded.payload
             ELSE NullVal

\* The type guard asking for the userId claim alone.
getAuthUser_UserIdOnly(cookie, secret, t) ==
    IF cookie = NoCookie \/ secret = "" THEN NullVal
    ELSE LET decoded == jwtVerify(cookie, secret, t)
         IN  IF ~decoded.ok THEN NullVal
             ELSE IF "userId" \in DOMAIN decoded.payload THEN decoded.payload
             ELSE NullVal

\* Verification that reads persistence: a user who owns a tag is refused.
getAuthUser_ReadsTags(cookie, secret, t) ==
    IF cookie = NoCookie \/ secret = "" THEN NullVal
    ELSE LET decoded == jwtVerify(cookie, secret, t)
         IN  IF ~decoded.ok THEN NullVal
             ELSE IF "userId" \in DOMAIN decoded.payload /\ "email" \in DOMAIN decoded.payload
                     /\ ~\E g \in tags : g.userId = decoded.payload.userId
                 THEN decoded.payload
             ELSE NullVal

getAuthUser(cookie, secret, t) ==
    IF cookie = NoCookie \/ secret = "" THEN NullVal
    ELSE LET decoded == jwtVerify(cookie, secret, t)
         IN  IF ~decoded.ok THEN NullVal
             ELSE IF "userId" \in DOMAIN decoded.payload /\ "email" \in DOMAIN decoded.payload
                 THEN decoded.payload
             ELSE NullVal

----------------------------------------------------------------------------
(* Persistence *)

UserRow(u) == [id |-> u, email |-> EmailOf(u), name |-> NameOf(u),
               password |-> <<"hash", u>>, createdAt |-> 0]

\* note_tags rows of a note, in id order
NoteTagsOf(nts, noteId) == SelectSeq(nts, LAMBDA r : r.noteId = noteId)

\* with: { noteTags: { with: { tag: true } } } followed by the tags mapping
TagsOfNote(nts, tgs, noteId) ==
    LET rows == NoteTagsOf(nts, noteId)
    IN  [i \in 1..Len(rows) |->
            LET tg == CHOOSE t \in tgs : t.id = rows[i].tagId
            IN  [id |-> tg.id, name |-> tg.name, color |-> tg.color]]

FormattedNote(n, nts, tgs) ==
    [id |-> n.id,
     title |-> IF n.title = NullStr THEN "Untitled" ELSE n.title,
     content |-> n.content,
     createdAt |-> n.createdAt,
     updatedAt |-> n.updatedAt,
     tags |-> TagsOfNote(nts, tgs, n.id)]

\* The note looked up by id alone.
OwnNotes_AnyOwner(ns, id, userId) == {n \in ns : n.id = id}

\* where: and(eq(notes.id, noteId), eq(notes.userId, authUser.userId))
OwnNotes(ns, id, userId) == {n \in ns : n.id = id /\ n.userId = userId}

\* The tag looked up by id alone.
OwnTags_AnyOwner(tgs, id, userId) == {t \in tgs : t.id = id}

\* where: and(eq(tags.id, id), eq(tags.userId, authUser.userId))
OwnTags(tgs, id, userId) == {t \in tgs : t.id = id /\ t.userId = userId}

\* The old associations kept: new ones are added to them.
DeleteNoteTags_Skip(nts, noteId) == nts

\* db.delete(noteTags).where(eq(noteTags.noteId, noteId))
DeleteNoteTags(nts, noteId) == SelectSeq(nts, LAMBDA r : r.noteId # noteId)

\* No cascade: the associations of a deleted note stay.
CascadeNote_None(nts, noteId) == nts

\* note_tags.note_id references notes.id with onDelete: "cascade"
CascadeNote(nts, noteId) == SelectSeq(nts, LAMBDA r : r.noteId # noteId)

\* No cascade: the associations of a deleted tag stay.
CascadeTag_None(nts, tagId) == nts

\* note_tags.tag_id references tags.id with onDelete: "cascade"
CascadeTag(nts, tagId) == SelectSeq(nts, LAMBDA r : r.tagId # tagId)

\* No tag is ever found by name.
TagsNamed_None(tgs, name, userId) == {}

\* The tags with a name, whoever owns them.
TagsNamed_AnyOwner(tgs, name, userId) == {t \in tgs : t.name = name}

\* where: and(eq(tags.name, name), eq(tags.userId, authUser.userId))
TagsNamed(tgs, name, userId) == {t \in tgs : t.name = name /\ t.userId = userId}

\* rows of note_tags built from a tagIds list
NoteTagsData(noteId, tagIds) == [i \in 1..Len(tagIds) |-> [noteId |-> noteId, tagId |-> tagIds[i]]]

\* No foreign key: any tag id can be inserted.
TagIdsExist_Unchecked(tgs, tagIds) == TRUE

\* An absent tagIds is taken as given.
TagIdsGiven_Always(tagIds) == TRUE

\* tagIds !== undefined
TagIdsGiven(tagIds) == tagIds.present

\* foreign key note_tags.tag_id -> tags.id
TagIdsExist(tgs, tagIds) == \A i \in 1..Len(tagIds) : \E t \in tgs : t.id = tagIds[i]

\* title || null, color || null
OrNull(v) == IF v = "" THEN NullStr ELSE v

\* Sequences of the rows of S in descending updatedAt order (ties in any order).
OrderByUpdatedDesc(S) ==
    {f \in Perms(S) : \A i, j \in 1..Cardinality(S) : i < j => f[i].updatedAt >= f[j].updatedAt}

\* Position of a tag name in the collation used by ORDER BY name.
NameRank(name) == IF name = "Home" THEN 1 ELSE IF name = "Work" THEN 2 ELSE 3

\* Sequences of the tag rows of S in ascending name order (ties in any order).
OrderByName(S) ==
    {f \in Perms(S) : \A i, j \in 1..Cardinality(S) :
        i < j => NameRank(f[i].name) <= NameRank(f[j].name)}

\* LIMIT limit OFFSET offset
LimitOffset(seq, limit, offset) ==
    SubSeq(seq, offset + 1, Min(Len(seq), offset + limit))

----------------------------------------------------------------------------
(* Requests and responses *)

\* handler: the route handler; cookie: the auth-token cookie sent; at: the time of
\* the request; authUser: what the handler resolved the cookie to; req: the inputs
\* the handler had read when it answered (the path id, and the query string or body
\* once it was parsed); status, body: the response; touched: whether a persistence
\* call was made.
Response(handler, cookie, authUser, req, status, body, touched) ==
    [handler |-> handler, cookie |-> cookie, at |-> now, authUser |-> authUser, req |-> req,
     status |-> status, body |-> body, touched |-> touched]

\* The 401 answer is given before the query string or the body is read.
Unauthorized(handler, cookie, req) ==
    Response(handler, cookie, NullVal, req, 401, [error |-> "Unauthorized"], FALSE)

InternalError(handler, cookie, authUser, req) ==
    Response(handler, cookie, authUser, req, 500, [error |-> "Internal server error"], TRUE)

----------------------------------------------------------------------------
(* app/api/notes/route.ts *)

\* The responses GET /api/notes can give over the stored rows.
NotesGETResponses(cookie, uidParam, search, tagId, page, limit) ==
    LET authUser == getAuthUser(cookie, JWT_SECRET, now)
        req == [userId |-> uidParam, search |-> search, tagId |-> tagId,
                page |-> page, limit |-> limit]
        offset == (page - 1) * limit
        matching == {n \in notes : /\ n.userId = authUser.userId
                                   /\ (search # <<>> => ilike(n.content, search))}
    IN  IF authUser = NullVal
        THEN {Unauthorized("NotesGET", cookie, NoReq)}
        ELSE {LET userNotes == LimitOffset(ordered, limit, offset)
                  filteredNotes ==
                      IF tagId # NoId
                      THEN SelectSeq(userNotes, LAMBDA n :
                               \E i \in 1..Len(noteTags) :
                                   noteTags[i].noteId = n.id /\ noteTags[i].tagId = tagId)
                      ELSE userNotes
                  formattedNotes == [i \in 1..Len(filteredNotes) |->
                                        FormattedNote(filteredNotes[i], noteTags, tags)]
              IN  Response("NotesGET", cookie, authUser, req, 200,
                           [notes |-> formattedNotes,
                            pagination |-> [page |-> page, limit |-> limit,
                                            hasMore |-> Len(userNotes) = limit]],
                           TRUE) : ordered \in OrderByUpdatedDesc(matching)}

NotesGET(cookie, uidParam, search, tagId, page, limit) ==
    /\ UNCHANGED <<ui, calls, envSecret, now, db>>
    /\ last' \in NotesGETResponses(cookie, uidParam, search, tagId, page, limit)

NotesPOST(cookie, uidParam, title, content, tagIds) ==
    LET authUser == getAuthUser(cookie, JWT_SECRET, now)
        req == [userId |-> uidParam, tagIds |-> tagIds]
        noteId == nextNoteId + 1
        newNote == [id |-> noteId, title |-> OrNull(title), content |-> content,
                    userId |-> authUser.userId, createdAt |-> now, updatedAt |-> now]
        withTags == tagIds.present /\ Len(tagIds.list) > 0
    IN  /\ UNCHANGED <<ui, calls, envSecret, now, users, tags, nextTagId>>
        /\ IF authUser = NullVal
           THEN /\ last' = Unauthorized("NotesPOST", cookie, NoReq)
                /\ UNCHANGED <<notes, noteTags, nextNoteId>>
           ELSE IF content = <<>>
           THEN /\ last' = Response("NotesPOST", cookie, authUser, req, 400,
                                    [error |-> "Content is required"], FALSE)
                /\ UNCHANGED <<notes, noteTags, nextNoteId>>
           ELSE /\ nextNoteId < MaxNotes
                /\ nextNoteId' = noteId
                /\ IF ~\E u \in users : u.id = authUser.userId
                   THEN \* notes.user_id foreign key
                        /\ last' = InternalError("NotesPOST", cookie, authUser, req)
                        /\ UNCHANGED <<notes, noteTags>>
                   ELSE /\ notes' = notes \cup {newNote}
                        /\ IF withTags /\ ~TagIdsExist(tags, tagIds.list)
                           THEN \* note_tags.tag_id foreign key
                                /\ last' = InternalError("NotesPOST", cookie, authUser, req)
                                /\ UNCHANGED noteTags
                           ELSE /\ withTags => Len(noteTags) + Len(tagIds.list) <= MaxNoteTags
                                /\ noteTags' = IF withTags
                                               THEN noteTags \o NoteTagsData(noteId, tagIds.list)
                                               ELSE noteTags
                                /\ last' = Response("NotesPOST", cookie, authUser, req, 201,
                                               FormattedNote(newNote, noteTags', tags), TRUE)

----------------------------------------------------------------------------
(* app/api/notes/[id]/route.ts *)

NoteGET(cookie, id) ==
    LET authUser == getAuthUser(cookie, JWT_SECRET, now)
        req == [id |-> id]
        found == OwnNotes(notes, id, authUser.userId)
    IN  /\ UNCHANGED <<ui, calls, envSecret, now, db>>
        /\ IF authUser = NullVal
           THEN last' = Unauthorized("NoteGET", cookie, [id |-> id])
           ELSE IF found = {}
           THEN last' = Response("NoteGET", cookie, authUser, req, 404,
                                 [error |-> "Note not found"], TRUE)
           ELSE last' = Response("NoteGET", cookie, authUser, req, 200,
                                 FormattedNote(CHOOSE n \in found : TRUE, noteTags, tags), TRUE)

NotePUT(cookie, id, title, content, tagIds) ==
    LET authUser == getAuthUser(cookie, JWT_SECRET, now)
        req == [id |-> id, tagIds |-> tagIds]
        target == OwnNotes(notes, id, authUser.userId)
        updated(n) == [n EXCEPT !.title = OrNull(title), !.content = content, !.updatedAt = now]
        updatedNotes == {IF n \in target THEN updated(n) ELSE n : n \in notes}
        removed == DeleteNoteTags(noteTags, id)
    IN  /\ UNCHANGED <<ui, calls, envSecret, now, users, tags, nextNoteId, nextTagId>>
        /\ IF authUser = NullVal
           THEN /\ last' = Unauthorized("NotePUT", cookie, [id |-> id])
                /\ UNCHANGED <<notes, noteTags>>
           ELSE IF content = <<>>
           THEN /\ last' = Response("NotePUT", cookie, authUser, req, 400,
                                    [error |-> "Content is required"], FALSE)
                /\ UNCHANGED <<notes, noteTags>>
           ELSE IF target = {}
           THEN /\ last' = Response("NotePUT", cookie, authUser, req, 404,
                                    [error |-> "Note not found or unauthorized"], TRUE)
                /\ UNCHANGED <<notes, noteTags>>
           ELSE /\ notes' = updatedNotes
                /\ IF ~TagIdsGiven(tagIds)
                   THEN /\ UNCHANGED noteTags
                        /\ last' = Response("NotePUT", cookie, authUser, req, 200,
                                       FormattedNote(updated(CHOOSE n \in target : TRUE),
                                                     noteTags, tags), TRUE)
                   ELSE IF Len(tagIds.list) > 0 /\ ~TagIdsExist(tags, tagIds.list)
                   THEN \* note_tags.tag_id foreign key, after the delete went through
                        /\ noteTags' = removed
                        /\ last' = InternalError("NotePUT", cookie, authUser, req)
                   ELSE /\ Len(removed) + Len(tagIds.list) <= MaxNoteTags
                        /\ noteTags' = removed \o NoteTagsData(id, tagIds.list)
                        /\ last' = Response("NotePUT", cookie, authUser, req, 200,
                                       FormattedNote(updated(CHOOSE n \in target : TRUE),
                                                     noteTags', tags), TRUE)

NoteDELETE(cookie, id) ==
    LET authUser == getAuthUser(cookie, JWT_SECRET, now)
        req == [id |-> id]
        target == OwnNotes(notes, id, authUser.userId)
    IN  /\ UNCHANGED <<ui, calls, envSecret, now, users, tags, nextNoteId, nextTagId>>
        /\ IF authUser = NullVal
           THEN /\ last' = Unauthorized("NoteDELETE", cookie, [id |-> id])
                /\ UNCHANGED <<notes, noteTags>>
           ELSE IF target = {}
           THEN /\ last' = Response("NoteDELETE", cookie, authUser, req, 404,
                                    [error |-> "Note not found or unauthorized"], TRUE)
                /\ UNCHANGED <<notes, noteTags>>
           ELSE /\ notes' = notes \ target
                /\ noteTags' = CascadeNote(noteTags, id)
                /\ last' = Response("NoteDELETE", cookie, authUser, req, 200,
                                    [message |-> "Note deleted successfully"], TRUE)

----------------------------------------------------------------------------
(* app/api/tags/route.ts *)

TagsGET(cookie, uidParam) ==
    LET authUser == getAuthUser(cookie, JWT_SECRET, now)
        req == [userId |-> uidParam]
    IN  /\ UNCHANGED <<ui, calls, envSecret, now, db>>
        /\ IF authUser = NullVal
           THEN last' = Unauthorized("TagsGET", cookie, NoReq)
           ELSE \E userTags \in OrderByName({t \in tags : t.userId = authUser.userId}) :
                  last' = Response("TagsGET", cookie, authUser, req, 200, [tags |-> userTags], TRUE)

TagsPOST(cookie, uidParam, name, color) ==
    LET authUser == getAuthUser(cookie, JWT_SECRET, now)
        req == [userId |-> uidParam, name |-> name]
        existingTag == TagsNamed(tags, name, authUser.userId)
        newTag == [id |-> nextTagId + 1, name |-> name, color |-> OrNull(color),
                   userId |-> authUser.userId, createdAt |-> now, updatedAt |-> now]
    IN  /\ UNCHANGED <<ui, calls, envSecret, now, users, notes, noteTags, nextNoteId>>
        /\ IF authUser = NullVal
           THEN /\ last' = Unauthorized("TagsPOST", cookie, NoReq)
                /\ UNCHANGED <<tags, nextTagId>>
           ELSE IF name = ""
           THEN /\ last' = Response("TagsPOST", cookie, authUser, req, 400,
                                    [error |-> "Name is required"], FALSE)
                /\ UNCHANGED <<tags, nextTagId>>
           ELSE IF existingTag # {}
           THEN /\ last' = Response("TagsPOST", cookie, authUser, req, 409,
                                    [error |-> "Tag with this name already exists"], TRUE)
                /\ UNCHANGED <<tags, nextTagId>>
           ELSE /\ nextTagId < MaxTags
                /\ nextTagId' = nextTagId + 1
                /\ IF ~\E u \in users : u.id = authUser.userId
                   THEN \* tags.user_id foreign key
                        /\ last' = InternalError("TagsPOST", cookie, authUser, req)
                        /\ UNCHANGED tags
                   ELSE /\ tags' = tags \cup {newTag}
                        /\ last' = Response("TagsPOST", cookie, authUser, req, 201, newTag, TRUE)

TagsPUT(cookie, id, name, color) ==
    LET authUser == getAuthUser(cookie, JWT_SECRET, now)
        req == [id |-> id, name |-> name]
        existingTag == OwnTags(tags, id, authUser.userId)
        sameName == TagsNamed(tags, name, authUser.userId)
        updated(t) == [t EXCEPT !.name = name, !.color = OrNull(color), !.updatedAt = now]
    IN  /\ UNCHANGED <<ui, calls, envSecret, now, users, notes, noteTags, nextNoteId, nextTagId>>
        /\ IF authUser = NullVal
           THEN /\ last' = Unauthorized("TagsPUT", cookie, NoReq)
                /\ UNCHANGED tags
           ELSE IF id = NoId \/ name = ""
           THEN /\ last' = Response("TagsPUT", cookie, authUser, req, 400,
                                    [error |-> "ID and name are required"], FALSE)
                /\ UNCHANGED tags
           ELSE IF existingTag = {}
           THEN /\ last' = Response("TagsPUT", cookie, authUser, req, 404,
                                    [error |-> "Tag not found"], TRUE)
                /\ UNCHANGED tags
           ELSE \E duplicateTag \in (IF sameName = {} THEN {NullVal} ELSE sameName) :
                  IF duplicateTag # NullVal /\ duplicateTag.id # id
                  THEN /\ last' = Response("TagsPUT", cookie, authUser, req, 409,
                                       [error |-> "Tag with this name already exists"], TRUE)
                       /\ UNCHANGED tags
                  ELSE /\ tags' = {IF t \in existingTag THEN updated(t) ELSE t : t \in tags}
                       /\ last' = Response("TagsPUT", cookie, authUser, req, 200,
                                       updated(CHOOSE t \in existingTag : TRUE), TRUE)

\* The id is validated before the cookie is verified.
TagsDELETE_ValidateFirst(cookie, id) ==
    LET authUser == getAuthUser(cookie, JWT_SECRET, now)
        req == [id |-> id]
        existingTag == OwnTags(tags, id, authUser.userId)
    IN  /\ UNCHANGED <<ui, calls, envSecret, now, users, notes, nextNoteId, nextTagId>>
        /\ IF id = NoId
           THEN /\ last' = Response("TagsDELETE", cookie, authUser, req, 400,
                                    [error |-> "Tag ID is required"], FALSE)
                /\ UNCHANGED <<tags, noteTags>>
           ELSE IF authUser = NullVal
           THEN /\ last' = Unauthorized("TagsDELETE", cookie, NoReq)
                /\ UNCHANGED <<tags, noteTags>>
           ELSE IF existingTag = {}
           THEN /\ last' = Response("TagsDELETE", cookie, authUser, req, 404,
                                    [error |-> "Tag not found"], TRUE)
                /\ UNCHANGED <<tags, noteTags>>
           ELSE /\ tags' = tags \ existingTag
                /\ noteTags' = CascadeTag(noteTags, id)
                /\ last' = Response("TagsDELETE", cookie, authUser, req, 200,
                                    [message |-> "Tag deleted successfully"], TRUE)

TagsDELETE(cookie, id) ==
    LET authUser == getAuthUser(cookie, JWT_SECRET, now)
        req == [id |-> id]
        existingTag == OwnTags(tags, id, authUser.userId)
    IN  /\ UNCHANGED <<ui, calls, envSecret, now, users, notes, nextNoteId, nextTagId>>
        /\ IF authUser = NullVal
           THEN /\ last' = Unauthorized("TagsDELETE", cookie, NoReq)
                /\ UNCHANGED <<tags, noteTags>>
           ELSE IF id = NoId
           THEN /\ last' = Response("TagsDELETE", cookie, authUser, req, 400,
                                    [error |-> "Tag ID is required"], FALSE)
                /\ UNCHANGED <<tags, noteTags>>
           ELSE IF existingTag = {}
           THEN /\ last' = Response("TagsDELETE", cookie, authUser, req, 404,
                                    [error |-> "Tag not found"], TRUE)
                /\ UNCHANGED <<tags, noteTags>>
           ELSE /\ tags' = tags \ existingTag
                /\ noteTags' = CascadeTag(noteTags, id)
                /\ last' = Response("TagsDELETE", cookie, authUser, req, 200,
                                    [message |-> "Tag deleted successfully"], TRUE)

----------------------------------------------------------------------------
(* app/api/dashboard/route.ts *)

RecentLimit == 5
PreviewLen == 100
SevenDays == 7

\* content.substring(0, 100) + (content.length > 100 ? "..." : "")
Preview(content) ==
    IF Len(content) > PreviewLen THEN SubSeq(content, 1, PreviewLen) \o <<"...">> ELSE content

DashboardGET(cookie, uidParam) ==
    LET req == [userId |-> uidParam]
        userIdNum == uidParam
        userNotes == {n \in notes : n.userId = userIdNum}
    IN  /\ UNCHANGED <<ui, calls, envSecret, now, db>>
        /\ IF uidParam = NoId
           THEN last' = Response("DashboardGET", cookie, NullVal, req, 400,
                                 [error |-> "User ID is required"], FALSE)
           ELSE \E ordered \in OrderByUpdatedDesc(userNotes) :
                  LET recentNotes == LimitOffset(ordered, RecentLimit, 0)
                  IN  last' = Response("DashboardGET", cookie, NullVal, req, 200,
                          [stats |-> [totalNotes |-> Cardinality(userNotes),
                                      totalTags |-> Cardinality({t \in tags : t.userId = userIdNum}),
                                      recentNotesCount |-> Cardinality(
                                          {n \in userNotes : n.createdAt >= now - SevenDays})],
                           recentNotes |-> [i \in 1..Len(recentNotes) |->
                               [FormattedNote(recentNotes[i], noteTags, tags)
                                   EXCEPT !.content = Preview(recentNotes[i].content)]]],
                          TRUE)

----------------------------------------------------------------------------
(* app/api/auth/me/route.ts *)

\* Every column of the row in the answer.
Profile_WholeRow(u) == u

\* user: { id, name, email, createdAt }
Profile(u) == [id |-> u.id, name |-> u.name, email |-> u.email, createdAt |-> u.createdAt]

AuthMeGET(cookie) ==
    LET decoded == jwtVerify(cookie, JWT_SECRET, now)
        req == NoReq
        user == {u \in users : "userId" \in DOMAIN decoded.payload /\ u.id = decoded.payload.userId}
    IN  /\ UNCHANGED <<ui, calls, envSecret, now, db>>
        /\ IF cookie = NoCookie
           THEN last' = Response("AuthMeGET", cookie, NullVal, req, 401,
                                 [error |-> "No authentication token provided"], FALSE)
           ELSE IF ~decoded.ok
           THEN last' = Response("AuthMeGET", cookie, NullVal, req, 401,
                                 [error |-> "Invalid authentication token"], FALSE)
           ELSE IF user = {}
           THEN last' = Response("AuthMeGET", cookie, decoded.payload, req, 404,
                                 [error |-> "User not found"], TRUE)
           ELSE LET u == CHOOSE r \in user : TRUE
                IN  last' = Response("AuthMeGET", cookie, decoded.payload, req, 200,
                                [user |-> Profile(u)], TRUE)

----------------------------------------------------------------------------
(* The notes collection handler that takes the user id from the request *)

LegacyNotesPOST(cookie, uidParam, title, content, tagIds) ==
    LET req == [userId |-> uidParam, tagIds |-> tagIds]
        noteId == nextNoteId + 1
        newNote == [id |-> noteId, title |-> OrNull(title), content |-> content,
                    userId |-> uidParam, createdAt |-> now, updatedAt |-> now]
        withTags == tagIds.present /\ Len(tagIds.list) > 0
    IN  /\ UNCHANGED <<ui, calls, envSecret, now, users, tags, nextTagId>>
        /\ IF content = <<>> \/ uidParam = NoId
           THEN /\ last' = Response("LegacyNotesPOST", cookie, NullVal, req, 400,
                                    [error |-> "Content and user ID are required"], FALSE)
                /\ UNCHANGED <<notes, noteTags, nextNoteId>>
           ELSE /\ nextNoteId < MaxNotes
                /\ nextNoteId' = noteId
                /\ IF ~\E u \in users : u.id = uidParam
                   THEN /\ last' = InternalError("LegacyNotesPOST", cookie, NullVal, req)
                        /\ UNCHANGED <<notes, noteTags>>
                   ELSE /\ notes' = notes \cup {newNote}
                        /\ IF withTags /\ ~TagIdsExist(tags, tagIds.list)
                           THEN /\ last' = InternalError("LegacyNotesPOST", cookie, NullVal, req)
                                /\ UNCHANGED noteTags
                           ELSE /\ withTags => Len(noteTags) + Len(tagIds.list) <= MaxNoteTags
                                /\ noteTags' = IF withTags
                                               THEN noteTags \o NoteTagsData(noteId, tagIds.list)
                                               ELSE noteTags
                                /\ last' = Response("LegacyNotesPOST", cookie, NullVal, req, 201,
                                               FormattedNote(newNote, noteTags', tags), TRUE)

----------------------------------------------------------------------------
(* Handlers statement by statement.  Every awaited database call of a handler *)
(* is one step; steps of different requests interleave.  No handler opens a   *)
(* transaction.                                                                *)

CallIds == {1, 2}

\* The notes page before it is opened.
ClosedPage ==
    [user |-> NoId, searchTerm |-> <<>>, selectedTagId |-> NoId, notes |-> <<>>,
     loading |-> TRUE, error |-> NullStr, fetches |-> {}, changes |-> 0]

IdleCall ==
    [pc |-> "idle", handler |-> "none", cookie |-> NoCookie, authUser |-> NullVal,
     id |-> NoId, title |-> "", content |-> <<>>, tagIds |-> NoTagIds, name |-> "",
     color |-> "", before |-> <<>>, status |-> 0]

InProgress(c) == calls[c].pc \notin {"idle", "done"}

\* The tag ids of a sequence of rows that carry a tag id.
TagIdsOf(rows) == [i \in 1..Len(rows) |-> rows[i].tagId]

\* The handler of call c returns response resp.
Finish(c, resp) ==
    /\ calls' = [calls EXCEPT ![c].pc = "done", ![c].status = resp.status]
    /\ last' = resp

\* The handler of call c goes on to its next statement.
Goto(c, pc) ==
    /\ calls' = [calls EXCEPT ![c].pc = pc]
    /\ UNCHANGED last

\* PUT /api/notes/[id]: getAuthUser, request.json(), validation
NotePUT_Begin(c, cookie, id, title, content, tagIds) ==
    LET authUser == getAuthUser(cookie, JWT_SECRET, now)
        req == [id |-> id, tagIds |-> tagIds]
    IN  /\ calls[c].pc = "idle"
        /\ UNCHANGED <<ui, envSecret, now, db>>
        /\ IF authUser = NullVal
           THEN Finish(c, Unauthorized("NotePUT", cookie, [id |-> id]))
           ELSE IF content = <<>>
           THEN Finish(c, Response("NotePUT", cookie, authUser, req, 400,
                                   [error |-> "Content is required"], FALSE))
           ELSE /\ calls' = [calls EXCEPT ![c] =
                               [IdleCall EXCEPT !.pc = "update", !.handler = "NotePUT",
                                   !.cookie = cookie, !.authUser = authUser, !.id = id,
                                   !.title = title, !.content = content, !.tagIds = tagIds,
                                   !.before = TagIdsOf(NoteTagsOf(noteTags, id))]]
                /\ UNCHANGED last

\* db.update(notes).set(...).where(and(id, userId)).returning()
NotePUT_Update(c) ==
    LET k == calls[c]
        req == [id |-> k.id, tagIds |-> k.tagIds]
        target == OwnNotes(notes, k.id, k.authUser.userId)
        updated(n) == [n EXCEPT !.title = OrNull(k.title), !.content = k.content,
                                !.updatedAt = now]
    IN  /\ k.handler = "NotePUT" /\ k.pc = "update"
        /\ UNCHANGED <<ui, envSecret, now, users, tags, noteTags, nextNoteId, nextTagId>>
        /\ IF target = {}
           THEN /\ Finish(c, Response("NotePUT", k.cookie, k.authUser, req, 404,
                                      [error |-> "Note not found or unauthorized"], TRUE))
                /\ UNCHANGED notes
           ELSE /\ notes' = {IF n \in target THEN updated(n) ELSE n : n \in notes}
                /\ Goto(c, IF TagIdsGiven(k.tagIds) THEN "delete" ELSE "fetch")

\* db.delete(noteTags).where(eq(noteTags.noteId, noteId))
NotePUT_Delete(c) ==
    LET k == calls[c]
    IN  /\ k.handler = "NotePUT" /\ k.pc = "delete"
        /\ UNCHANGED <<ui, envSecret, now, users, notes, tags, nextNoteId, nextTagId>>
        /\ noteTags' = DeleteNoteTags(noteTags, k.id)
        /\ Goto(c, IF Len(k.tagIds.list) > 0 THEN "insert" ELSE "fetch")

\* db.insert(noteTags).values(noteTagsData)
NotePUT_Insert(c) ==
    LET k == calls[c]
        req == [id |-> k.id, tagIds |-> k.tagIds]
    IN  /\ k.handler = "NotePUT" /\ k.pc = "insert"
        /\ UNCHANGED <<ui, envSecret, now, users, notes, tags, nextNoteId, nextTagId>>
        /\ IF ~TagIdsExist(tags, k.tagIds.list) \/ ~\E n \in notes : n.id = k.id
           THEN \* foreign keys of note_tags
                /\ Finish(c, InternalError("NotePUT", k.cookie, k.authUser, req))
                /\ UNCHANGED noteTags
           ELSE /\ noteTags' = noteTags \o NoteTagsData(k.id, k.tagIds.list)
                /\ Goto(c, "fetch")

\* db.query.notes.findFirst({ where: eq(notes.id, noteId), with: ... }) and the answer
NotePUT_Fetch(c) ==
    LET k == calls[c]
        req == [id |-> k.id, tagIds |-> k.tagIds]
        note == {n \in notes : n.id = k.id}
    IN  /\ k.handler = "NotePUT" /\ k.pc = "fetch"
        /\ UNCHANGED <<ui, envSecret, now, db>>
        /\ IF note = {}
           THEN \* note!.id on undefined throws
                Finish(c, InternalError("NotePUT", k.cookie, k.authUser, req))
           ELSE Finish(c, Response("NotePUT", k.cookie, k.authUser, req, 200,
                                   FormattedNote(CHOOSE n \in note : TRUE, noteTags, tags), TRUE))

\* POST /api/tags: getAuthUser, request.json(), validation
TagsPOST_Begin(c, cookie, name, color) ==
    LET authUser == getAuthUser(cookie, JWT_SECRET, now)
        req == [userId |-> NoId, name |-> name]
    IN  /\ calls[c].pc = "idle"
        /\ UNCHANGED <<ui, envSecret, now, db>>
        /\ IF authUser = NullVal
           THEN Finish(c, Unauthorized("TagsPOST", cookie, NoReq))
           ELSE IF name = ""
           THEN Finish(c, Response("TagsPOST", cookie, authUser, req, 400,
                                   [error |-> "Name is required"], FALSE))
           ELSE /\ calls' = [calls EXCEPT ![c] =
                               [IdleCall EXCEPT !.pc = "check", !.handler = "TagsPOST",
                                   !.cookie = cookie, !.authUser = authUser,
                                   !.name = name, !.color = color]]
                /\ UNCHANGED last

\* db.query.tags.findFirst({ where: and(name, userId) })
TagsPOST_Check(c) ==
    LET k == calls[c]
        req == [userId |-> NoId, name |-> k.name]
        existingTag == TagsNamed(tags, k.name, k.authUser.userId)
    IN  /\ k.handler = "TagsPOST" /\ k.pc = "check"
        /\ UNCHANGED <<ui, envSecret, now, db>>
        /\ IF existingTag # {}
           THEN Finish(c, Response("TagsPOST", k.cookie, k.authUser, req, 409,
                                   [error |-> "Tag with this name already exists"], TRUE))
           ELSE Goto(c, "insert")

\* db.insert(tags).values(...).returning() and the answer
TagsPOST_Insert(c) ==
    LET k == calls[c]
        req == [userId |-> NoId, name |-> k.name]
        newTag == [id |-> nextTagId + 1, name |-> k.name, color |-> OrNull(k.color),
                   userId |-> k.authUser.userId, createdAt |-> now, updatedAt |-> now]
    IN  /\ k.handler = "TagsPOST" /\ k.pc = "insert"
        /\ UNCHANGED <<ui, envSecret, now, users, notes, noteTags, nextNoteId>>
        /\ nextTagId' = nextTagId + 1
        /\ IF ~\E u \in users : u.id = k.authUser.userId
           THEN /\ Finish(c, InternalError("TagsPOST", k.cookie, k.authUser, req))
                /\ UNCHANGED tags
           ELSE /\ tags' = tags \cup {newTag}
                /\ Finish(c, Response("TagsPOST", k.cookie, k.authUser, req, 201, newTag, TRUE))

\* PUT /api/tags: getAuthUser, request.json(), validation
TagsPUT_Begin(c, cookie, id, name, color) ==
    LET authUser == getAuthUser(cookie, JWT_SECRET, now)
        req == [id |-> id, name |-> name]
    IN  /\ calls[c].pc = "idle"
        /\ UNCHANGED <<ui, envSecret, now, db>>
        /\ IF authUser = NullVal
           THEN Finish(c, Unauthorized("TagsPUT", cookie, NoReq))
           ELSE IF id = NoId \/ name = ""
           THEN Finish(c, Response("TagsPUT", cookie, authUser, req, 400,
                                   [error |-> "ID and name are required"], FALSE))
           ELSE /\ calls' = [calls EXCEPT ![c] =
                               [IdleCall EXCEPT !.pc = "find", !.handler = "TagsPUT",
                                   !.cookie = cookie, !.authUser = authUser, !.id = id,
                                   !.name = name, !.color = color]]
                /\ UNCHANGED last

\* db.query.tags.findFirst({ where: and(id, userId) })
TagsPUT_Find(c) ==
    LET k == calls[c]
        req == [id |-> k.id, name |-> k.name]
    IN  /\ k.handler = "TagsPUT" /\ k.pc = "find"
        /\ UNCHANGED <<ui, envSecret, now, db>>
        /\ IF OwnTags(tags, k.id, k.authUser.userId) = {}
           THEN Finish(c, Response("TagsPUT", k.cookie, k.authUser, req, 404,
                                   [error |-> "Tag not found"], TRUE))
           ELSE Goto(c, "check")

\* db.query.tags.findFirst({ where: and(name, userId) }) and the comparison of ids
TagsPUT_Check(c) ==
    LET k == calls[c]
        req == [id |-> k.id, name |-> k.name]
        sameName == TagsNamed(tags, k.name, k.authUser.userId)
    IN  /\ k.handler = "TagsPUT" /\ k.pc = "check"
        /\ UNCHANGED <<ui, envSecret, now, db>>
        /\ \E duplicateTag \in (IF sameName = {} THEN {NullVal} ELSE sameName) :
              IF duplicateTag # NullVal /\ duplicateTag.id # k.id
              THEN Finish(c, Response("TagsPUT", k.cookie, k.authUser, req, 409,
                                      [error |-> "Tag with this name already exists"], TRUE))
              ELSE Goto(c, "update")

\* db.update(tags).set(...).where(and(id, userId)).returning() and the answer
TagsPUT_Update(c) ==
    LET k == calls[c]
        req == [id |-> k.id, name |-> k.name]
        target == OwnTags(tags, k.id, k.authUser.userId)
        updated(t) == [t EXCEPT !.name = k.name, !.color = OrNull(k.color), !.updatedAt = now]
    IN  /\ k.handler = "TagsPUT" /\ k.pc = "update"
        /\ UNCHANGED <<ui, envSecret, now, users, notes, noteTags, nextNoteId, nextTagId>>
        /\ tags' = {IF t \in target THEN updated(t) ELSE t : t \in tags}
        /\ Finish(c, Response("TagsPUT", k.cookie, k.authUser, req, 200,
                              IF target = {} THEN NullVal
                              ELSE updated(CHOOSE t \in target : TRUE), TRUE))

----------------------------------------------------------------------------
(* Inputs *)

ServerSecret == "k-server"
OtherSecret == "k-other"
EnvSecrets == {"", ServerSecret}

Identity(u) == [userId |-> u, email |-> EmailOf(u)]

\* Cookies of the sessions that edit notes and tags: none, and the tokens issued
\* at login to the two users.
SessionCookies ==
    {NoCookie} \cup {Issue(Identity(u), MaxTime + 1, ServerSecret) : u \in UserIds}

UidParams == {NoId} \cup UserIds
NoteIds == 1..MaxNotes
TagIds == 1..MaxTags
Titles == {"", "T"}
Contents == {<<>>, <<"a">>}
Searches == {<<>>, <<"a">>}
Names == {"", "Home", "Work"}
Colors == {""}
DefaultLimit == 10
TagIdLists ==
    {NoTagIds} \cup {TagIdList(l) : l \in {<<>>, <<1, 1>>} \cup {<<i>> : i \in TagIds}
                                        \cup {<<i, i + 1>> : i \in 1..(MaxTags - 1)}}

Init ==
    /\ envSecret = ServerSecret
    /\ now = 0
    /\ users = {UserRow(u) : u \in UserIds}
    /\ notes = {}
    /\ tags = {}
    /\ noteTags = <<>>
    /\ nextNoteId = 0
    /\ nextTagId = 0
    /\ last = [handler |-> "none", cookie |-> NoCookie, at |-> 0, authUser |-> NullVal,
               req |-> NoReq, status |-> 0, body |-> NoReq, touched |-> FALSE]
    /\ calls = [c \in CallIds |-> IdleCall]
    /\ ui = ClosedPage

Tick ==
    /\ now < MaxTime
    /\ now' = now + 1
    /\ UNCHANGED <<envSecret, db, last, calls, ui>>

\* Requests that create, change or delete notes and tags, and the by-id read.
Edit(cookie) ==
    \/ \E c \in Contents, ids \in {NoTagIds, TagIdList(<<1>>)} : NotesPOST(cookie, NoId, "", c, ids)
    \/ \E id \in NoteIds : NoteGET(cookie, id)
    \/ \E id \in NoteIds, t \in Titles, c \in Contents, ids \in TagIdLists :
           NotePUT(cookie, id, t, c, ids)
    \/ \E id \in NoteIds : NoteDELETE(cookie, id)
    \/ \E n \in Names, c \in Colors : TagsPOST(cookie, NoId, n, c)
    \/ \E id \in {NoId} \cup TagIds, n \in Names, c \in Colors : TagsPUT(cookie, id, n, c)
    \/ \E id \in {NoId} \cup TagIds : TagsDELETE(cookie, id)

Next == \E cookie \in SessionCookies : Edit(cookie)

Spec == Init /\ [][Next]_vars

----------------------------------------------------------------------------
(* Collection reads over the rows that creates and updates leave behind *)

Read(cookie) ==
    \/ \E u \in UidParams, s \in Searches, t \in {NoId, 1} :
           NotesGET(cookie, u, s, t, 1, DefaultLimit)
    \/ \E u \in UidParams : TagsGET(cookie, u)
    \/ \E u \in UidParams : DashboardGET(cookie, u)
    \/ \E id \in NoteIds : NoteGET(cookie, id)

Populate(cookie) ==
    \/ \E ids \in {NoTagIds, TagIdList(<<1>>)} : NotesPOST(cookie, NoId, "", <<"a">>, ids)
    \/ \E n \in Names \ {""}, c \in Colors : TagsPOST(cookie, NoId, n, c)
    \/ \E id \in NoteIds, t \in Titles : NotePUT(cookie, id, t, <<"A", "b">>, NoTagIds)
    \/ \E id \in TagIds : TagsDELETE(cookie, id)

NextRead == \E cookie \in SessionCookies : Read(cookie) \/ Populate(cookie)

SpecRead == Init /\ [][NextRead]_vars

----------------------------------------------------------------------------
(* Creates, with the handler that takes the owner from the request *)

Create(cookie) ==
    \/ \E u \in UidParams, c \in Contents, ids \in {NoTagIds, TagIdList(<<1>>)} :
           NotesPOST(cookie, u, "", c, ids)
    \/ \E u \in UidParams, n \in Names, c \in Colors : TagsPOST(cookie, u, n, c)
    \/ \E u \in UidParams, c \in Contents, ids \in {NoTagIds, TagIdList(<<1>>)} :
           LegacyNotesPOST(cookie, u, "", c, ids)
    \/ \E id \in NoteIds : NoteGET(cookie, id)

NextLegacy == \E cookie \in SessionCookies : Create(cookie)

SpecLegacy == Init /\ [][NextLegacy]_vars

----------------------------------------------------------------------------
(* Token verification at the endpoints, over every cookie a client can send *)

Keys == {ServerSecret, DefaultSecret, OtherSecret}
Expiries == 1..(MaxTime + 1)

\* Tokens as login makes them, under each key.
IssuedTokens == {Issue(Identity(u), e, k) : u \in TokenUserIds, e \in Expiries, k \in Keys}

\* An issued token with one claim or the signature changed.
Tampered(t) ==
    {Jwt([t.payload EXCEPT !.userId = u], t.sig) : u \in TokenUserIds \ {t.payload.userId}}
    \cup {Jwt([t.payload EXCEPT !.email = EmailOf(u)], t.sig) :
             u \in TokenUserIds \ {t.payload.userId}}
    \cup {Jwt([t.payload EXCEPT !.exp = e], t.sig) : e \in Expiries \ {t.payload.exp}}
    \cup {Jwt(t.payload, Sign(t.payload, k)) : k \in Keys \ {t.sig[2]}}

\* Correctly signed tokens whose payload lacks a claim.
PartialTokens ==
    {Jwt(p, Sign(p, k)) : p \in {[userId |-> 1, exp |-> MaxTime + 1],
                                 [email |-> EmailOf(1), exp |-> MaxTime + 1]},
                          k \in Keys \ {OtherSecret}}

AllCookies ==
    {NoCookie, Garbage} \cup IssuedTokens \cup PartialTokens
    \cup UNION {Tampered(t) : t \in {x \in IssuedTokens : x.payload.userId = 1}}

InitAuth ==
    /\ envSecret \in EnvSecrets
    /\ now = 0
    /\ users = {UserRow(u) : u \in UserIds}
    /\ notes = {}
    /\ tags = {}
    /\ noteTags = <<>>
    /\ nextNoteId = 0
    /\ nextTagId = 0
    /\ last = [handler |-> "none", cookie |-> NoCookie, at |-> 0, authUser |-> NullVal,
               req |-> NoReq, status |-> 0, body |-> NoReq, touched |-> FALSE]
    /\ calls = [c \in CallIds |-> IdleCall]
    /\ ui = ClosedPage

Verify(cookie) ==
    \/ NotesGET(cookie, NoId, <<>>, NoId, 1, DefaultLimit)
    \/ NoteGET(cookie, 1)
    \/ TagsGET(cookie, NoId)
    \/ NoteDELETE(cookie, 1)
    \/ TagsDELETE(cookie, 1)
    \/ AuthMeGET(cookie)

NextAuth == Tick \/ \E cookie \in AllCookies : Verify(cookie)

SpecAuth == InitAuth /\ [][NextAuth]_vars

----------------------------------------------------------------------------
(* Requests of one user in progress at the same time, over stored rows *)

\* User 1 owns note 1, tagged Home, and the tags Home and Work.
SeedNote ==
    [id |-> 1, title |-> NullStr, content |-> <<"a">>, userId |-> 1,
     createdAt |-> 0, updatedAt |-> 0]
SeedTag(i, name) ==
    [id |-> i, name |-> name, color |-> NullStr, userId |-> 1, createdAt |-> 0, updatedAt |-> 0]

InitConc ==
    /\ envSecret = ServerSecret
    /\ now = 0
    /\ users = {UserRow(u) : u \in UserIds}
    /\ notes = {SeedNote}
    /\ tags = {SeedTag(1, "Home"), SeedTag(2, "Work")}
    /\ noteTags = <<[noteId |-> 1, tagId |-> 1]>>
    /\ nextNoteId = 1
    /\ nextTagId = 2
    /\ last = [handler |-> "none", cookie |-> NoCookie, at |-> 0, authUser |-> NullVal,
               req |-> NoReq, status |-> 0, body |-> NoReq, touched |-> FALSE]
    /\ calls = [c \in CallIds |-> IdleCall]
    /\ ui = ClosedPage

\* Bodies of concurrent edits of a note.
NoteEdits == {[title |-> "P", content |-> <<"p">>], [title |-> "Q", content |-> <<"q">>]}
EditTagIdLists == {NoTagIds, TagIdList(<<>>), TagIdList(<<1>>), TagIdList(<<2>>)}

NotePUTSteps(c) ==
    \/ \E cookie \in SessionCookies, e \in NoteEdits, ids \in EditTagIdLists :
           NotePUT_Begin(c, cookie, 1, e.title, e.content, ids)
    \/ NotePUT_Update(c)
    \/ NotePUT_Delete(c)
    \/ NotePUT_Insert(c)
    \/ NotePUT_Fetch(c)

\* Reads are one query each.
NoteReads(cookie) ==
    \/ NoteGET(cookie, 1)
    \/ NotesGET(cookie, NoId, <<>>, NoId, 1, DefaultLimit)
    \/ DashboardGET(cookie, 1)

NextConc ==
    \/ \E c \in CallIds : NotePUTSteps(c)
    \/ \E cookie \in SessionCookies \ {NoCookie} : NoteReads(cookie)

SpecConc == InitConc /\ [][NextConc]_vars

\* Names of concurrent tag creates and renames.
RaceNames == {"Home", "Urgent"}

TagSteps(c) ==
    \/ \E cookie \in SessionCookies, n \in RaceNames : TagsPOST_Begin(c, cookie, n, "")
    \/ TagsPOST_Check(c)
    \/ TagsPOST_Insert(c)
    \/ \E cookie \in SessionCookies, id \in TagIds, n \in RaceNames :
           TagsPUT_Begin(c, cookie, id, n, "")
    \/ TagsPUT_Find(c)
    \/ TagsPUT_Check(c)
    \/ TagsPUT_Update(c)

NextTagRace ==
    \/ \E c \in CallIds : TagSteps(c)
    \/ \E cookie \in SessionCookies : TagsGET(cookie, NoId)

SpecTagRace == InitConc /\ [][NextTagRace]_vars

----------------------------------------------------------------------------
(* Edits of a note in progress while the note or a tag it uses is deleted *)

NextConcDelete ==
    \/ NotePUTSteps(1)
    \/ \E cookie \in SessionCookies \ {NoCookie} :
          \/ NoteDELETE(cookie, 1)
          \/ \E id \in TagIds : TagsDELETE(cookie, id)

SpecConcDelete == InitConc /\ [][NextConcDelete]_vars

----------------------------------------------------------------------------
(* Several stored notes: deletes by id and paged lists *)

ShelfTime == 2
ShelfNoteIds == {1, 2, 3}

\* A note row as POST /api/notes stores it at time t.
ShelfNote(i, u, t) ==
    [id |-> i, title |-> NullStr, content |-> <<"a">>, userId |-> u,
     createdAt |-> t, updatedAt |-> t]

\* User 1 stored notes 1 and 2 at the same clock reading and owns both tags;
\* user 2 stored note 3 later.
InitShelf ==
    /\ envSecret = ServerSecret
    /\ now = ShelfTime
    /\ users = {UserRow(u) : u \in UserIds}
    /\ notes = {ShelfNote(1, 1, 1), ShelfNote(2, 1, 1), ShelfNote(3, 2, ShelfTime)}
    /\ tags = {[SeedTag(1, "Home") EXCEPT !.createdAt = 1, !.updatedAt = 1],
               [SeedTag(2, "Work") EXCEPT !.createdAt = 1, !.updatedAt = 1]}
    /\ noteTags = <<[noteId |-> 1, tagId |-> 1], [noteId |-> 2, tagId |-> 1],
                    [noteId |-> 2, tagId |-> 2]>>
    /\ nextNoteId = 3
    /\ nextTagId = 2
    /\ last = [handler |-> "none", cookie |-> NoCookie, at |-> 0, authUser |-> NullVal,
               req |-> NoReq, status |-> 0, body |-> NoReq, touched |-> FALSE]
    /\ calls = [c \in CallIds |-> IdleCall]
    /\ ui = ClosedPage

PageNumbers == {1, 2, 3}
PageLimits == {1, 2}

ShelfSteps(cookie) ==
    \/ \E id \in ShelfNoteIds : NoteDELETE(cookie, id)
    \/ \E id \in ShelfNoteIds : NoteGET(cookie, id)
    \/ \E id \in ShelfNoteIds, c \in Contents : NotePUT(cookie, id, "T", c, NoTagIds)
    \/ \E t \in {NoId, 1}, p \in PageNumbers, l \in PageLimits :
           NotesGET(cookie, NoId, <<>>, t, p, l)

NextShelf == \E cookie \in SessionCookies : ShelfSteps(cookie)

SpecShelf == InitShelf /\ [][NextShelf]_vars

----------------------------------------------------------------------------
(* app/notes/page.tsx: the notes page of user 1 over stored rows *)

MaxChanges == 2

\* The cookie the browser of user u sends.
BrowserCookie(u) == Issue(Identity(u), MaxTime + 1, ServerSecret)

\* fetchNotes: setLoading(true) and the request, with the search term and tag
\* filter of the render that started it.
StartFetch(p) ==
    [p EXCEPT !.loading = TRUE,
              !.fetches = @ \cup {[n |-> p.changes, search |-> p.searchTerm,
                                   tagId |-> p.selectedTagId]}]

\* The user is known: the effect runs for the first time.
Page_Open ==
    /\ ui.user = NoId
    /\ ui' = StartFetch([ui EXCEPT !.user = 1])
    /\ UNCHANGED <<envSecret, now, db, last, calls>>

\* setSearchTerm: the effect runs again.
Page_SetSearchTerm(term) ==
    /\ ui.user # NoId
    /\ ui.changes < MaxChanges
    /\ term # ui.searchTerm
    /\ ui' = StartFetch([ui EXCEPT !.searchTerm = term, !.changes = @ + 1])
    /\ UNCHANGED <<envSecret, now, db, last, calls>>

\* setSelectedTagId: the effect runs again.
Page_SetSelectedTagId(tagId) ==
    /\ ui.user # NoId
    /\ ui.changes < MaxChanges
    /\ tagId # ui.selectedTagId
    /\ ui' = StartFetch([ui EXCEPT !.selectedTagId = tagId, !.changes = @ + 1])
    /\ UNCHANGED <<envSecret, now, db, last, calls>>

\* The server answers fetch f and fetchNotes resumes: setNotes or setError, then
\* setLoading(false).
Page_Response(f) ==
    /\ f \in ui.fetches
    /\ last' \in NotesGETResponses(BrowserCookie(ui.user), ui.user, f.search, f.tagId,
                                   1, DefaultLimit)
    /\ ui' = [ui EXCEPT !.fetches = @ \ {f},
                        !.loading = FALSE,
                        !.notes = IF last'.status = 200 THEN last'.body.notes ELSE @,
                        !.error = IF last'.status = 200 THEN @ ELSE "Failed to fetch notes"]
    /\ UNCHANGED <<envSecret, now, db, calls>>

PageSearches == Searches \cup {<<"b">>}
PageTagIds == {NoId} \cup TagIds
PageFetches == [n : 0..MaxChanges, search : PageSearches, tagId : PageTagIds]

NextPage ==
    \/ Page_Open
    \/ \E term \in PageSearches : Page_SetSearchTerm(term)
    \/ \E tagId \in PageTagIds : Page_SetSelectedTagId(tagId)
    \/ \E f \in PageFetches : Page_Response(f)

SpecPage == InitConc /\ [][NextPage]_vars

----------------------------------------------------------------------------
(* Properties *)

\* The identity the auth-token cookie of request r verifies to at the time of r.
Verified(r) == getAuthUser(r.cookie, JWT_SECRET, r.at)

\* Handlers that resolve the cookie through getAuthUser.
GuardedHandlers ==
    {"NotesGET", "NotesPOST", "NoteGET", "NotePUT", "NoteDELETE",
     "TagsGET", "TagsPOST", "TagsPUT", "TagsDELETE"}

ResourceHandlers == GuardedHandlers \cup {"DashboardGET"}

UnauthorizedBody == [error |-> "Unauthorized"]

\* C1: at every resource endpoint a request whose cookie is absent or fails
\* verification is answered 401 {"error":"Unauthorized"} and no persistence call
\* is made before the answer.
C1_UnauthenticatedIs401 ==
    (last.handler \in ResourceHandlers /\ Verified(last) = NullVal)
        => (last.status = 401 /\ last.body = UnauthorizedBody /\ ~last.touched)

NoteByIdHandlers == {"NoteGET", "NotePUT", "NoteDELETE"}
TagByIdHandlers == {"TagsPUT", "TagsDELETE"}

\* The rows the by-id request r addresses, whoever owns them.
Addressed(r) ==
    IF r.handler \in NoteByIdHandlers THEN {n \in notes : n.id = r.req.id}
    ELSE {t \in tags : t.id = r.req.id}

\* The not-found answer of a by-id handler.
NotFoundBody(handler) ==
    IF handler = "NoteGET" THEN [error |-> "Note not found"]
    ELSE IF handler \in {"NotePUT", "NoteDELETE"}
        THEN [error |-> "Note not found or unauthorized"]
    ELSE [error |-> "Tag not found"]

C3_ReadsScopedToToken ==
    (last.handler \in {"NotesGET", "TagsGET", "DashboardGET"} /\ last.status = 200) =>
        LET v == Verified(last)
            mine(rows) == {r \in rows : v # NullVal /\ r.userId = v.userId}
        IN  CASE last.handler = "NotesGET" ->
                    \A i \in 1..Len(last.body.notes) :
                        \E n \in mine(notes) : n.id = last.body.notes[i].id
              [] last.handler = "TagsGET" ->
                    \A i \in 1..Len(last.body.tags) : last.body.tags[i] \in mine(tags)
              [] OTHER ->
                    /\ last.body.stats.totalNotes = Cardinality(mine(notes))
                    /\ last.body.stats.totalTags = Cardinality(mine(tags))
                    /\ \A i \in 1..Len(last.body.recentNotes) :
                           \E n \in mine(notes) : n.id = last.body.recentNotes[i].id

CreateHandlers == {"NotesPOST", "TagsPOST", "LegacyNotesPOST"}

\* C4: the row stored by a successful create carries the userId of the verified
\* token of the request, whatever userId the client sends.
C4_CreateOwnedByToken ==
    (last.handler \in CreateHandlers /\ last.status = 201) =>
        LET v == Verified(last)
            created == IF last.handler = "TagsPOST"
                       THEN {t \in tags : t.id = last.body.id}
                       ELSE {n \in notes : n.id = last.body.id}
        IN  v # NullVal /\ \A row \in created : row.userId = v.userId

\* The note rows, the tag rows and the associations of the notes of user a.
RowsOf(a) ==
    <<{n \in notes : n.userId = a},
      {t \in tags : t.userId = a},
      SelectSeq(noteTags, LAMBDA r : \E n \in notes : n.id = r.noteId /\ n.userId = a)>>

\* C5: an update or delete authenticated as user B that addresses a note or tag
\* of user A leaves A's notes, A's tags and the associations of A's notes as
\* they were.
C5_ForeignRowsUnchanged ==
    [][ (/\ last'.handler \in {"NotePUT", "NoteDELETE", "TagsPUT", "TagsDELETE"}
         /\ last'.authUser # NullVal)
        => \A row \in Addressed(last') :
               row.userId # last'.authUser.userId => RowsOf(row.userId)' = RowsOf(row.userId) ]_vars

\* A PUT of user B for a tag of user A that is attached to a note was refused.
C5_Witness ==
    /\ last.handler = "TagsPUT"
    /\ last.status = 404
    /\ \E t \in tags : /\ t.id = last.req.id
                       /\ t.userId # last.authUser.userId
                       /\ \E i \in 1..Len(noteTags) : noteTags[i].tagId = t.id

\* C10: after a successful PUT /api/notes/{id} with tagIds in the body the
\* associations of the note are exactly the given ids (none for an empty list),
\* and the note as returned, by the PUT and by a following GET, lists exactly
\* the tags of those ids.
C10_PutReplacesTags ==
    /\ (last.handler = "NotePUT" /\ last.status = 200 /\ last.req.tagIds.present) =>
           /\ TagIdsOf(NoteTagsOf(noteTags, last.req.id)) = last.req.tagIds.list
           /\ [i \in 1..Len(last.body.tags) |-> last.body.tags[i].id] = last.req.tagIds.list
    /\ (last.handler = "NoteGET" /\ last.status = 200) =>
           [i \in 1..Len(last.body.tags) |-> last.body.tags[i].id]
               = TagIdsOf(NoteTagsOf(noteTags, last.req.id))

\* A PUT with an empty tagIds list succeeded while both tags exist, and the note
\* has no association.
C10_Witness ==
    /\ last.handler = "NotePUT"
    /\ last.status = 200
    /\ last.req.tagIds = TagIdList(<<>>)
    /\ NoteTagsOf(noteTags, last.req.id) = <<>>
    /\ Cardinality(tags) = MaxTags

----------------------------------------------------------------------------
(* Properties of token verification *)

\* C6: a token issued for an identity under the server secret and presented
\* before its expiry is resolved by getAuthUser to the same userId and email.
C6_VerifyIssueRoundTrip ==
    \A u \in TokenUserIds, e \in Expiries :
        (/\ last.handler \in GuardedHandlers
         /\ last.cookie = Issue(Identity(u), e, JWT_SECRET)
         /\ last.at < e)
        => (/\ last.authUser # NullVal
            /\ last.authUser.userId = u
            /\ last.authUser.email = EmailOf(u))

\* A token that expires at time 2 was presented at time 1 and accepted.
C6_Witness ==
    /\ last.handler = "NotesGET"
    /\ last.cookie = Issue(Identity(2), 2, JWT_SECRET)
    /\ last.at = 1
    /\ last.status = 200

\* The expiry encoded in the token is earlier than time t.
Expired(cookie, t) ==
    cookie.kind = "jwt" /\ "exp" \in DOMAIN cookie.payload /\ cookie.payload.exp < t

\* C7: a token whose expiry is earlier than the current time resolves to no
\* identity, also when signature and claims are valid, and a token that is
\* expired now resolves to no identity at any later time.
C7_ExpiredRejected ==
    [][ /\ (last'.handler \in GuardedHandlers /\ Expired(last'.cookie, last'.at))
            => (last'.authUser = NullVal /\ last'.status = 401)
        /\ now' # now =>
               \A c \in AllCookies :
                   Expired(c, now) => getAuthUser(c, JWT_SECRET, now') = NullVal ]_vars

\* A correctly signed token with both claims was refused after its expiry.
C7_Witness ==
    /\ last.handler = "NoteGET"
    /\ last.cookie = Issue(Identity(1), 1, JWT_SECRET)
    /\ last.at = 2
    /\ last.status = 401

\* C8: a token made from an issued token by changing a claim or the signature
\* is rejected; getAuthUser accepts a token only if its signature is the one
\* of its whole claim set under the server secret.
C8_TamperedRejected ==
    /\ (last.handler \in GuardedHandlers /\ last.authUser # NullVal) =>
           (last.cookie.kind = "jwt"
            /\ last.cookie.sig = Sign(last.cookie.payload, JWT_SECRET))
    /\ \A e \in Expiries :
           (/\ last.handler \in GuardedHandlers
            /\ last.cookie \in Tampered(Issue(Identity(1), e, JWT_SECRET)))
           => (last.authUser = NullVal /\ last.status = 401)

\* A token of user 1 whose userId claim was changed to 2 was refused before its
\* expiry.
C8_Witness ==
    /\ last.handler = "NoteGET"
    /\ last.cookie = Jwt([userId |-> 2, email |-> EmailOf(1), exp |-> MaxTime + 1],
                         Sign([userId |-> 1, email |-> EmailOf(1), exp |-> MaxTime + 1],
                              JWT_SECRET))
    /\ last.at = 0
    /\ last.status = 401

\* The cookie of request r is rejected: absent, malformed, badly signed or expired.
Rejected(r) == r.cookie = NoCookie \/ ~jwtVerify(r.cookie, JWT_SECRET, r.at).ok

\* C9: at each endpoint that verifies the cookie, requests with no token, a
\* malformed token, a badly signed token and an expired token all get the same
\* status and the same body.
C9_RejectionsIndistinguishable ==
    [][ (/\ last.handler \in GuardedHandlers \cup {"AuthMeGET"}
         /\ last'.handler = last.handler
         /\ Rejected(last)
         /\ Rejected(last'))
        => (last'.status = last.status /\ last'.body = last.body) ]_vars

----------------------------------------------------------------------------
(* Interleaved requests *)

Range(seq) == {seq[i] : i \in 1..Len(seq)}

\* The notes a successful read response shows.
NotesSeen(r) ==
    IF r.status # 200 THEN <<>>
    ELSE IF r.handler = "NoteGET" THEN <<r.body>>
    ELSE IF r.handler = "NotesGET" THEN r.body.notes
    ELSE IF r.handler = "DashboardGET" THEN r.body.recentNotes
    ELSE <<>>

\* C11: while a single PUT of a note that replaces its tag set S by a non-empty
\* set T is in progress, every read of the note (by id, in the list, on the
\* dashboard) shows the tag set S or the tag set T.
C11_ReadSeesOldOrNew ==
    [][\A c \in CallIds :
          (/\ calls' = calls
           /\ last' # last
           /\ InProgress(c)
           /\ calls[c].handler = "NotePUT"
           /\ calls[c].tagIds.present
           /\ Len(calls[c].tagIds.list) > 0
           /\ \A d \in CallIds \ {c} : calls[d].pc = "idle")
          => \A i \in 1..Len(NotesSeen(last')) :
                NotesSeen(last')[i].id = calls[c].id
                => {t.id : t \in Range(NotesSeen(last')[i].tags)}
                       \in {Range(calls[c].before), Range(calls[c].tagIds.list)}]_vars

\* The stored note has the title, the content and the tag set of call c.
StoredAs(c) ==
    \E n \in notes :
        /\ n.id = calls[c].id
        /\ n.title = OrNull(calls[c].title)
        /\ n.content = calls[c].content
        /\ Range(TagIdsOf(NoteTagsOf(noteTags, n.id))) = Range(calls[c].tagIds.list)

\* C12: when two PUT requests for the same note, both with tagIds, have both
\* completed with 200, the stored note has the title, content and tag set of
\* one of the two requests.
C12_LastWriteWins ==
    (\A c \in CallIds : /\ calls[c].pc = "done"
                        /\ calls[c].handler = "NotePUT"
                        /\ calls[c].status = 200
                        /\ calls[c].tagIds.present)
        => \E c \in CallIds : StoredAs(c)

\* C20: no user owns two tags with the same name.
C20_TagNamesUnique ==
    \A t1, t2 \in tags : (t1.userId = t2.userId /\ t1.name = t2.name) => t1.id = t2.id

----------------------------------------------------------------------------
(* Tags, the profile, validation and the secret *)

\* C13: POST /api/tags by a user who owns a tag with the given name is answered
\* 409 and inserts nothing; a tag of that name owned by another user causes no
\* 409.
C13_DuplicateNameIs409 ==
    [][last'.handler = "TagsPOST"
          => \A n \in Names \ {""}, c \in Colors :
                LET authUser == getAuthUser(last'.cookie, JWT_SECRET, now)
                IN  (authUser # NullVal /\ TagsPOST(last'.cookie, NoId, n, c))
                    => IF \E g \in tags : g.userId = authUser.userId /\ g.name = n
                       THEN last'.status = 409 /\ tags' = tags /\ nextTagId' = nextTagId
                       ELSE last'.status # 409]_vars

\* A user was refused a name they own while another user owns a tag of that name.
C13_Witness ==
    /\ last.handler = "TagsPOST"
    /\ last.status = 409
    /\ \E g \in tags : g.userId = last.authUser.userId /\ g.name = last.req.name
    /\ \E g \in tags : g.userId # last.authUser.userId /\ g.name = last.req.name

\* The token of request r verifies and carries a userId.
Decodes(r) ==
    /\ r.cookie # NoCookie
    /\ jwtVerify(r.cookie, JWT_SECRET, r.at).ok
    /\ "userId" \in DOMAIN r.cookie.payload

\* C14: GET /api/auth/me with a token that verifies but whose userId matches
\* no user row is answered 401, as an unauthenticated request is.
C14_MissingUserIs401 ==
    (/\ last.handler = "AuthMeGET"
     /\ Decodes(last)
     /\ ~\E u \in users : u.id = last.cookie.payload.userId)
        => last.status = 401

\* C15: GET /api/auth/me with a token that verifies for a stored user returns
\* 200 with id, name, email and createdAt of the row whose id is the token's
\* userId, and nothing else of the row: no password.
C15_MeReturnsProfile ==
    (/\ last.handler = "AuthMeGET"
     /\ Decodes(last)
     /\ \E u \in users : u.id = last.cookie.payload.userId)
        => /\ last.status = 200
           /\ DOMAIN last.body.user = {"id", "name", "email", "createdAt"}
           /\ \E u \in users :
                 /\ u.id = last.cookie.payload.userId
                 /\ last.body.user.id = u.id
                 /\ last.body.user.name = u.name
                 /\ last.body.user.email = u.email
                 /\ last.body.user.createdAt = u.createdAt

C15_Witness ==
    /\ last.handler = "AuthMeGET"
    /\ last.status = 200
    /\ last.cookie \in IssuedTokens
    /\ last.body.user.id = 2

\* The values of S that request r can have sent in a field: the value recorded
\* with r when the handler read the field, any value when it did not.
Sent(r, field, S) == IF field \in DOMAIN r.req THEN {r.req[field]} \cap S ELSE S

\* C16: a request that lacks a required field is answered 400 when the cookie
\* verifies and 401 when it does not, and in both cases persistence is left
\* unchanged.
C16_ValidationAfterAuth ==
    [][LET cookie == last'.cookie
           Expected ==
               /\ db' = db
               /\ IF getAuthUser(cookie, JWT_SECRET, now) # NullVal
                  THEN last'.status = 400 /\ ~last'.touched
                  ELSE last'.status = 401 /\ ~last'.touched
       IN  /\ (/\ last'.handler = "NotesPOST"
               /\ \E ids \in Sent(last', "tagIds", TagIdLists) :
                     NotesPOST(cookie, NoId, "", <<>>, ids)) => Expected
           /\ (/\ last'.handler = "NotePUT"
               /\ \E id \in NoteIds, t \in Titles, ids \in Sent(last', "tagIds", TagIdLists) :
                     NotePUT(cookie, id, t, <<>>, ids)) => Expected
           /\ (/\ last'.handler = "TagsPOST"
               /\ \E c \in Colors : TagsPOST(cookie, NoId, "", c)) => Expected
           /\ (/\ last'.handler = "TagsPUT"
               /\ \E id \in Sent(last', "id", {NoId} \cup TagIds),
                     n \in Sent(last', "name", Names), c \in Colors :
                     (id = NoId \/ n = "") /\ TagsPUT(cookie, id, n, c)) => Expected
           /\ (/\ last'.handler = "TagsDELETE"
               /\ TagsDELETE(cookie, NoId)) => Expected]_vars

\* A verified caller was answered 400 while rows were stored.
C16_Witness ==
    /\ last.handler \in {"NotesPOST", "NotePUT", "TagsPOST", "TagsPUT", "TagsDELETE"}
    /\ last.status = 400
    /\ last.authUser # NullVal
    /\ notes # {}
    /\ tags # {}

\* C17: when the environment supplies no secret, no token is accepted: every
\* handler that calls getAuthUser, and GET /api/auth/me, resolves the cookie to
\* no identity and answers 401.
C17_NoDefaultSecret ==
    envSecret = ""
        => (last.handler \in GuardedHandlers \cup {"AuthMeGET"}
                => last.authUser = NullVal /\ last.status = 401)

C19_TagDeleteCascades ==
    [][/\ \A id \in TagIds :
             (/\ last'.handler = "TagsDELETE"
              /\ last'.status = 200
              /\ TagsDELETE(last'.cookie, id))
             => /\ \A i \in 1..Len(noteTags') : noteTags'[i].tagId # id
                /\ noteTags' = SelectSeq(noteTags, LAMBDA r : r.tagId # id)
                /\ notes' = notes
       /\ \A i \in 1..Len(NotesSeen(last')) :
             \A t \in Range(NotesSeen(last')[i].tags) : \E g \in tags' : g.id = t.id]_vars

\* A tag was deleted by its owner, who has a note.
C19_Witness ==
    /\ last.handler = "TagsDELETE"
    /\ last.status = 200
    /\ \E n \in notes : n.userId = last.authUser.userId
    /\ \A i \in 1..Len(noteTags) : noteTags[i].tagId # last.req.id

----------------------------------------------------------------------------
(* Associations, failures and deletes *)

\* C21: every association links a note and a tag of the same owner.
C21_AssociationSameOwner ==
    \A i \in 1..Len(noteTags) :
        \A n \in notes, g \in tags :
            (n.id = noteTags[i].noteId /\ g.id = noteTags[i].tagId) => n.userId = g.userId

\* C22: a POST /api/notes answered 500 has stored no note and no association;
\* a PUT /api/notes/{id} answered 500 has left notes and associations as they
\* were.
C22_UnchangedOnInternalError ==
    [][(last'.handler \in {"NotesPOST", "NotePUT"} /\ last'.status = 500 /\ last' # last)
          => (notes' = notes /\ noteTags' = noteTags)]_vars

\* C23: a successful PUT /api/notes/{id} without tagIds changes title, content
\* and updatedAt of that note and nothing else: the associations, the other
\* notes and the tags stay.
C23_PutWithoutTagIdsKeepsTags ==
    [][(/\ last'.handler = "NotePUT"
        /\ last'.status = 200
        /\ \E t \in Titles, c \in Contents :
               NotePUT(last'.cookie, last'.req.id, t, c, NoTagIds))
          => /\ noteTags' = noteTags
             /\ tags' = tags
             /\ \A n \in notes :
                   IF n.id = last'.req.id
                   THEN \E m \in notes' : /\ m.id = n.id
                                          /\ m.userId = n.userId
                                          /\ m.createdAt = n.createdAt
                   ELSE n \in notes'
             /\ Cardinality(notes') = Cardinality(notes)]_vars

\* A note with associations was updated without tagIds.
C23_Witness ==
    /\ last.handler = "NotePUT"
    /\ last.status = 200
    /\ ~last.req.tagIds.present
    /\ Len(NoteTagsOf(noteTags, last.req.id)) > 0

\* C24: PUT /api/tags on a tag of the caller is answered 409 and changes no tag
\* when another tag of the caller has the requested name; otherwise it is
\* answered 200 and changes name, color and updatedAt of that tag only.
C24_TagRenameConflict ==
    [][(/\ last'.handler = "TagsPUT"
        /\ last'.authUser # NullVal
        /\ "id" \in DOMAIN last'.req
        /\ \E g \in tags : g.id = last'.req.id /\ g.userId = last'.authUser.userId
        /\ last'.req.name # ""
        /\ \E c \in Colors : TagsPUT(last'.cookie, last'.req.id, last'.req.name, c))
          => IF \E g \in tags : /\ g.userId = last'.authUser.userId
                                /\ g.name = last'.req.name
                                /\ g.id # last'.req.id
             THEN last'.status = 409 /\ tags' = tags
             ELSE /\ last'.status = 200
                  /\ \A g \in tags :
                        IF g.id = last'.req.id
                        THEN \E h \in tags' : /\ h.id = g.id
                                              /\ h.userId = g.userId
                                              /\ h.createdAt = g.createdAt
                                              /\ h.name = last'.req.name
                        ELSE g \in tags'
                  /\ Cardinality(tags') = Cardinality(tags)
                  /\ notes' = notes
                  /\ noteTags' = noteTags]_vars

\* A rename to the name of another tag of the caller was refused.
C24_Witness ==
    /\ last.handler = "TagsPUT"
    /\ last.status = 409
    /\ \E g, h \in tags : /\ g.id = last.req.id
                          /\ h.id # g.id
                          /\ h.userId = g.userId
                          /\ h.name = last.req.name

\* C25: a successful DELETE /api/notes/{id} removes the caller's note and its
\* associations and nothing else; a deleted id never has a row again; and a
\* later GET, DELETE or PUT with content of that id is answered 404 to every
\* user, a PUT without content 400, with nothing changed.
C25_NoteDeleteIsFinal ==
    [][/\ (/\ last'.handler = "NoteDELETE"
           /\ last'.status = 200
           /\ NoteDELETE(last'.cookie, last'.req.id))
          => /\ \E n \in notes : /\ n.id = last'.req.id
                                 /\ n.userId = last'.authUser.userId
                                 /\ notes' = notes \ {n}
             /\ noteTags' = SelectSeq(noteTags, LAMBDA r : r.noteId # last'.req.id)
             /\ tags' = tags
       /\ \A id \in 1..nextNoteId :
             (~\E n \in notes : n.id = id) => (~\E n \in notes' : n.id = id)
       /\ (/\ last'.handler \in NoteByIdHandlers
           /\ last'.authUser # NullVal
           /\ last' # last
           /\ ~\E n \in notes : n.id = last'.req.id)
          => /\ db' = db
             /\ IF \E t \in Titles :
                      NotePUT(last'.cookie, last'.req.id, t, <<>>, NoTagIds)
                THEN last'.status = 400
                ELSE last'.status = 404]_vars

\* C25 as stated: every GET, PUT or DELETE of an id that has no row is answered
\* 404 to every user.
C25_EveryRequestIsNotFound ==
    [][(/\ last'.handler \in NoteByIdHandlers
        /\ last'.authUser # NullVal
        /\ last' # last
        /\ ~\E n \in notes : n.id = last'.req.id)
          => last'.status = 404]_vars

\* A user asked for a deleted note while other notes and associations are stored.
C25_Witness ==
    /\ last.handler \in NoteByIdHandlers
    /\ last.status = 404
    /\ last.req.id <= nextNoteId
    /\ ~\E n \in notes : n.id = last.req.id
    /\ \E n \in notes : n.userId = last.authUser.userId
    /\ Len(noteTags) > 0

\* C26: a correctly signed, unexpired token whose payload lacks the userId or
\* the email claim resolves to no identity and the endpoint answers 401; an
\* identity is resolved only from a payload with both claims.
C26_BothClaimsRequired ==
    last.handler \in GuardedHandlers
        => /\ (/\ last.cookie # NoCookie
               /\ jwtVerify(last.cookie, JWT_SECRET, last.at).ok
               /\ ~({"userId", "email"} \subseteq DOMAIN last.cookie.payload))
              => last.authUser = NullVal /\ last.status = 401
           /\ last.authUser # NullVal
              => {"userId", "email"} \subseteq DOMAIN last.authUser

\* A signed, unexpired token without the email claim was refused.
C26_Witness ==
    /\ last.handler \in GuardedHandlers
    /\ last.cookie \in PartialTokens
    /\ jwtVerify(last.cookie, JWT_SECRET, last.at).ok
    /\ "userId" \in DOMAIN last.cookie.payload
    /\ last.status = 401

\* C27: every association references a stored note and a stored tag.
C27_AssociationsReferenceRows ==
    \A i \in 1..Len(noteTags) :
        /\ \E n \in notes : n.id = noteTags[i].noteId
        /\ \E g \in tags : g.id = noteTags[i].tagId

\* An edit in progress had its insert refused because a row it refers to was
\* deleted meanwhile.
C27_Witness ==
    /\ last.handler = "NotePUT"
    /\ last.status = 500
    /\ calls[1].pc = "done"
    /\ \/ ~\E n \in notes : n.id = calls[1].id
       \/ \E i \in 1..Len(calls[1].tagIds.list) :
              ~\E g \in tags : g.id = calls[1].tagIds.list[i]

\* C28: no note has the same tag associated twice.
C28_NoRepeatedAssociation ==
    \A i, j \in 1..Len(noteTags) :
        (noteTags[i].noteId = noteTags[j].noteId /\ noteTags[i].tagId = noteTags[j].tagId)
            => i = j

\* The rows of ns that belong to the verified user of request r and match its
\* search and tagId, under the associations nts.
Matching(r, ns, nts) ==
    {n \in ns : /\ n.userId = r.authUser.userId
                /\ (r.req.search # <<>> => ilike(n.content, r.req.search))
                /\ (r.req.tagId # NoId =>
                       \E i \in 1..Len(nts) :
                           nts[i].noteId = n.id /\ nts[i].tagId = r.req.tagId)}

\* C29: when a page of GET /api/notes with hasMore is followed by the request
\* for the next page of the same list, no note is on both pages and the notes
\* of the next page are not newer than those of the page before; a page without
\* hasMore has fewer matching notes than the pages up to it can hold.
C29_PagesPartitionTheList ==
    [][(last'.handler = "NotesGET" /\ last'.status = 200)
          => /\ (/\ last.handler = "NotesGET"
                 /\ last.status = 200
                 /\ last.body.pagination.hasMore
                 /\ last'.cookie = last.cookie
                 /\ last'.req.search = last.req.search
                 /\ last'.req.tagId = last.req.tagId
                 /\ last'.req.limit = last.req.limit
                 /\ last'.req.page = last.req.page + 1)
                => \A i \in 1..Len(last.body.notes), j \in 1..Len(last'.body.notes) :
                      /\ last.body.notes[i].id # last'.body.notes[j].id
                      /\ last.body.notes[i].updatedAt >= last'.body.notes[j].updatedAt
             /\ ~last'.body.pagination.hasMore
                => Cardinality(Matching(last', notes', noteTags'))
                       < last'.req.page * last'.req.limit]_vars

\* The rows GET /api/notes returns to the page's user for a search term and a
\* tag filter.
Listing(search, tagId) ==
    {r.body.notes : r \in {x \in NotesGETResponses(BrowserCookie(ui.user), ui.user, search,
                                                     tagId, 1, DefaultLimit) : x.status = 200}}

\* C30: when no fetch of the notes page is in flight, the page shows the
\* response to the request with the current search term and tag filter, and
\* loading is false.
C30_PageShowsLatestRequest ==
    (ui.user # NoId /\ ui.fetches = {})
        => /\ ~ui.loading
           /\ ui.notes \in Listing(ui.searchTerm, ui.selectedTagId)

====
